---- MODULE Spec2Model ----
(***************************************************************************)
(* Model of generate_atlas.py: the shelf packer pack_images and the        *)
(* command-line driver main.                                                *)
(*                                                                         *)
(* An image is a record [width, height, tag]; tag stands for the image's   *)
(* pixel content (see Texel).  An RGBA value is abstracted to a small      *)
(* integer, 0 being the fully transparent (0,0,0,0).  Python lists are      *)
(* sequences, so indices are 1-based where the source is 0-based.           *)
(***************************************************************************)
EXTENDS Integers, Sequences, FiniteSets, TLC

VARIABLES
    \* ---- pack_images ----
    pc,              \* position in pack_images
    images,          \* the list of images (argument; main's list)
    padding,         \* the padding (argument; main's args.padding)
    sorted_indices,
    atlas_width,
    positions,
    current_x,
    current_y,
    row_height,
    k,               \* cursor of "for idx in sorted_indices"
    atlas_height,
    final_size,
    atlas,
    \* ---- main ----
    mpc,             \* position in main
    dir_exists,      \* os.path.exists(input_dir)
    msdfgen_path,    \* args.msdfgen_path: "None", "good" or "bad" (no such file)
    on_path,         \* whether find_msdfgen() finds an executable
    msdfgen,
    svg_files,       \* result of glob: the files, by name
    n_svg,           \* number of *.svg files in the directory
    svg_i,           \* cursor of "for svg in svg_files"
    raster,          \* history: what the rasterizer did for each file so far
    icons_data,
    atlas_img,
    pos_map,
    json_data,
    exit_code

packVars == <<pc, images, padding, sorted_indices, atlas_width, positions,
              current_x, current_y, row_height, k, atlas_height, final_size, atlas>>
mainVars == <<mpc, dir_exists, msdfgen_path, on_path, msdfgen, svg_files, n_svg,
              svg_i, raster, icons_data, atlas_img, pos_map, json_data, exit_code>>
vars == <<packVars, mainVars>>

----------------------------------------------------------------------------
\* Bounds of the model
MaxImages == 2
MaxWidth == 3
MaxHeight == 2
MaxPad == 1
MaxFiles == 2

NumColours == 3

None == "None"
\* the None of an entry of positions that no iteration has set yet
NoPos == <<>>

Paddings == -1 .. MaxPad
\* any image object PIL can hand over, zero-sized ones included
Dims == [width : 0 .. MaxWidth, height : 0 .. MaxHeight]
\* what the rasterizer writes: a real PNG, so both dimensions positive
RasterDims == [width : 1 .. MaxWidth, height : 1 .. MaxHeight]
\* what one run of the rasterizer does: it fails, or it writes an image
Failed == [ok |-> FALSE, width |-> 0, height |-> 0]
Outcomes == {Failed} \cup {[ok |-> TRUE, width |-> d.width, height |-> d.height] : d \in RasterDims}

Max(a, b) == IF a >= b THEN a ELSE b
Abs(n) == IF n < 0 THEN 0 - n ELSE n

\* int.bit_length(): the number of bits of |n|
RECURSIVE BitLength(_)
BitLength(n) == IF n = 0 THEN 0 ELSE 1 + BitLength(Abs(n) \div 2)

NextPow2Double(n) == 2 ^ BitLength(n)

\* 1 << (n - 1).bit_length()
NextPow2(n) == 2 ^ BitLength(n - 1)

\* int(math.ceil(math.sqrt(a))) for a >= 0
CeilSqrt(a) == CHOOSE r \in 0 .. a : r * r >= a /\ \A q \in 0 .. (r - 1) : q * q < a

\* sum((img.width + padding) * (img.height + padding) for img in images)
RECURSIVE SumArea(_, _, _)
SumArea(imgs, pad, i) ==
    IF i > Len(imgs) THEN 0
    ELSE (imgs[i].width + pad) * (imgs[i].height + pad) + SumArea(imgs, pad, i + 1)

TotalArea(imgs, pad) == SumArea(imgs, pad, 1)

RECURSIVE InsertIdxUnstable(_, _, _)
InsertIdxUnstable(imgs, s, i) ==
    IF s = <<>> THEN <<i>>
    ELSE IF imgs[Head(s)].height > imgs[i].height
         THEN <<Head(s)>> \o InsertIdxUnstable(imgs, Tail(s), i)
         ELSE <<i>> \o s

\* sorted(..., key=height, reverse=True) is stable: an index goes behind every
\* index already placed whose image is at least as high
RECURSIVE InsertIdx(_, _, _)
InsertIdx(imgs, s, i) ==
    IF s = <<>> THEN <<i>>
    ELSE IF imgs[Head(s)].height >= imgs[i].height
         THEN <<Head(s)>> \o InsertIdx(imgs, Tail(s), i)
         ELSE <<i>> \o s

RECURSIVE SortUpTo(_, _)
SortUpTo(imgs, i) ==
    IF i = 0 THEN <<>> ELSE InsertIdx(imgs, SortUpTo(imgs, i - 1), i)

SortedIndices(imgs) == SortUpTo(imgs, Len(imgs))

\* the pixel of an image at column u, row v
Texel(img, u, v) == (img.tag + u + 2 * v) % NumColours

\* Image.new("RGBA", (w, h), (0,0,0,0))
NewImage(w, h) ==
    [width |-> w, height |-> h,
     px |-> [c \in (0 .. (w - 1)) \X (0 .. (h - 1)) |-> 0]]

\* Image.paste(img, (x, y)) without a mask: a region copy clipped to the target
Paste(dst, img, x, y) ==
    [dst EXCEPT !.px =
        [c \in DOMAIN dst.px |->
            IF /\ x <= c[1] /\ c[1] < x + img.width
               /\ y <= c[2] /\ c[2] < y + img.height
            THEN Texel(img, c[1] - x, c[2] - y)
            ELSE dst.px[c]]]

\* for idx, img in enumerate(images): atlas.paste(img, positions[idx])
RECURSIVE PasteAll(_, _, _, _)
PasteAll(dst, imgs, pos, i) ==
    IF i > Len(imgs) THEN dst
    ELSE PasteAll(Paste(dst, imgs[i], pos[i][1], pos[i][2]), imgs, pos, i + 1)

----------------------------------------------------------------------------
\* pack_images

PackLocalsInit ==
    /\ sorted_indices = None
    /\ atlas_width = None
    /\ positions = None
    /\ current_x = None
    /\ current_y = None
    /\ row_height = None
    /\ k = None
    /\ atlas_height = None
    /\ final_size = None
    /\ atlas = None

IsEmptyNever(imgs) == FALSE

\* "not images" (line 27)
IsEmpty(imgs) == imgs = <<>>

\* lines 27-45: the empty-list return, or the sort, the size estimate and the
\* cursor; math.sqrt raises ValueError on a negative sum
PackEnter ==
    /\ pc = "enter"
    /\ IF IsEmpty(images)
       THEN /\ atlas' = NewImage(1, 1)
            /\ positions' = <<>>
            /\ pc' = "returned"
            /\ UNCHANGED <<sorted_indices, atlas_width, current_x, current_y,
                           row_height, k>>
       ELSE IF TotalArea(images, padding) < 0
       THEN /\ pc' = "raised"
            /\ UNCHANGED <<sorted_indices, atlas_width, positions, current_x,
                           current_y, row_height, k, atlas>>
       ELSE /\ sorted_indices' = SortedIndices(images)
            /\ atlas_width' = NextPow2(CeilSqrt(TotalArea(images, padding)))
            /\ positions' = [i \in 1 .. Len(images) |-> NoPos]
            /\ current_x' = padding
            /\ current_y' = padding
            /\ row_height' = 0
            /\ k' = 1
            /\ pc' = "shelf"
            /\ UNCHANGED atlas
    /\ UNCHANGED <<images, padding, atlas_height, final_size>>
    /\ UNCHANGED mainVars

RowBreakNoPad(img) == current_x + img.width > atlas_width

\* whether the image does not fit in the current row (line 49)
RowBreak(img) == current_x + img.width + padding > atlas_width

NextXNoPad(x, img) == x + img.width

\* the cursor behind a placed image (line 56)
NextX(x, img) == x + img.width + padding

\* lines 47-56: one iteration of the shelf loop
ShelfStep ==
    /\ pc = "shelf"
    /\ k <= Len(sorted_indices)
    /\ LET idx == sorted_indices[k]
           img == images[idx]
           x == IF RowBreak(img) THEN padding ELSE current_x
           y == IF RowBreak(img) THEN current_y + row_height + padding ELSE current_y
           rh == IF RowBreak(img) THEN 0 ELSE row_height
       IN /\ positions' = [positions EXCEPT ![idx] = <<x, y>>]
          /\ row_height' = Max(rh, img.height)
          /\ current_x' = NextX(x, img)
          /\ current_y' = y
    /\ k' = k + 1
    /\ UNCHANGED <<pc, images, padding, sorted_indices, atlas_width, atlas_height,
                   final_size, atlas>>
    /\ UNCHANGED mainVars

\* lines 58-63: the realized height and the square power-of-two size
Resolve ==
    /\ pc = "shelf"
    /\ k > Len(sorted_indices)
    /\ atlas_height' = current_y + row_height + padding
    /\ final_size' = NextPow2(Max(atlas_width, current_y + row_height + padding))
    /\ pc' = "compose"
    /\ UNCHANGED <<images, padding, sorted_indices, atlas_width, positions,
                   current_x, current_y, row_height, k, atlas>>
    /\ UNCHANGED mainVars

\* lines 65-70: the sheet, the pastes and the return
Compose ==
    /\ pc = "compose"
    /\ atlas' = PasteAll(NewImage(final_size, final_size), images, positions, 1)
    /\ pc' = "returned"
    /\ UNCHANGED <<images, padding, sorted_indices, atlas_width, positions,
                   current_x, current_y, row_height, k, atlas_height, final_size>>
    /\ UNCHANGED mainVars

----------------------------------------------------------------------------
\* pack_images called on its own

MainIdle ==
    /\ mpc = "idle"
    /\ dir_exists = None
    /\ msdfgen_path = None
    /\ on_path = None
    /\ msdfgen = None
    /\ svg_files = None
    /\ n_svg = None
    /\ svg_i = None
    /\ raster = <<>>
    /\ icons_data = None
    /\ atlas_img = None
    /\ pos_map = None
    /\ json_data = None
    /\ exit_code = None

\* the lists of at most MaxImages images; the tag of an image is its index
ImageLists ==
    UNION {[1 .. n -> Dims] : n \in 0 .. MaxImages}

Tagged(ds) ==
    [i \in 1 .. Len(ds) |-> [width |-> ds[i].width, height |-> ds[i].height, tag |-> i]]

Init ==
    /\ pc = "enter"
    /\ images \in {Tagged(ds) : ds \in ImageLists}
    /\ padding \in Paddings
    /\ PackLocalsInit
    /\ MainIdle

Next ==
    \/ PackEnter
    \/ ShelfStep
    \/ Resolve
    \/ Compose

Spec == Init /\ [][Next]_vars

----------------------------------------------------------------------------
\* main

\* lines 82-85: the input directory must exist
CheckDir ==
    /\ mpc = "start"
    /\ IF ~dir_exists
       THEN /\ exit_code' = 1
            /\ mpc' = "exit"
       ELSE /\ mpc' = "find"
            /\ UNCHANGED exit_code
    /\ UNCHANGED <<dir_exists, msdfgen_path, on_path, msdfgen, svg_files, n_svg,
                   svg_i, raster, icons_data, atlas_img, pos_map, json_data>>
    /\ UNCHANGED packVars

\* lines 10-20: a path when an executable is found, else None
find_msdfgen == IF on_path THEN "good" ELSE None

\* lines 87-90: args.msdfgen_path or find_msdfgen(); an explicit path is taken
\* as given
FindMsdfgen ==
    /\ mpc = "find"
    /\ LET m == IF msdfgen_path # None THEN msdfgen_path ELSE find_msdfgen
       IN /\ msdfgen' = m
          /\ IF m = None
             THEN /\ exit_code' = 1
                  /\ mpc' = "exit"
             ELSE /\ mpc' = "glob"
                  /\ UNCHANGED exit_code
    /\ UNCHANGED <<dir_exists, msdfgen_path, on_path, svg_files, n_svg, svg_i,
                   raster, icons_data, atlas_img, pos_map, json_data>>
    /\ UNCHANGED packVars

\* lines 92-104: the *.svg files of the directory; none is not an error
Glob ==
    /\ mpc = "glob"
    /\ svg_files' = [i \in 1 .. n_svg |-> i]
    /\ IF n_svg = 0
       THEN /\ exit_code' = 0
            /\ mpc' = "exit"
            /\ UNCHANGED <<icons_data, images, svg_i, raster>>
       ELSE /\ icons_data' = <<>>
            /\ images' = <<>>
            /\ svg_i' = 1
            /\ UNCHANGED raster
            /\ mpc' = "loop"
            /\ UNCHANGED exit_code
    /\ UNCHANGED <<dir_exists, msdfgen_path, on_path, msdfgen, n_svg, atlas_img,
                   pos_map, json_data>>
    /\ UNCHANGED <<pc, padding, sorted_indices, atlas_width, positions, current_x,
                   current_y, row_height, k, atlas_height, final_size, atlas>>

\* lines 106-122: one file.  The rasterizer fails (CalledProcessError, caught)
\* or writes an image; a path that names no executable makes subprocess.run
\* raise FileNotFoundError, which nothing catches: the interpreter exits with 1
Rasterize ==
    /\ mpc = "loop"
    /\ svg_i <= Len(svg_files)
    /\ IF msdfgen = "bad"
       THEN /\ exit_code' = 1
            /\ mpc' = "exit"
            /\ UNCHANGED <<images, icons_data, raster, svg_i>>
       ELSE /\ \E out \in Outcomes :
                 /\ raster' = Append(raster, out)
                 /\ IF ~out.ok
                    THEN UNCHANGED <<images, icons_data>>
                    ELSE /\ images' = Append(images,
                                [width |-> out.width, height |-> out.height,
                                 tag |-> svg_files[svg_i]])
                         /\ icons_data' = Append(icons_data,
                                [name |-> svg_files[svg_i], file |-> svg_files[svg_i]])
            /\ svg_i' = svg_i + 1
            /\ UNCHANGED <<exit_code, mpc>>
    /\ UNCHANGED <<dir_exists, msdfgen_path, on_path, msdfgen, svg_files, n_svg,
                   atlas_img, pos_map, json_data>>
    /\ UNCHANGED <<pc, padding, sorted_indices, atlas_width, positions, current_x,
                   current_y, row_height, k, atlas_height, final_size, atlas>>

AfterLoopReturnsZero ==
    /\ mpc = "loop"
    /\ svg_i > Len(svg_files)
    /\ IF images = <<>>
       THEN /\ exit_code' = 0
            /\ mpc' = "exit"
            /\ UNCHANGED pc
       ELSE /\ pc' = "enter"
            /\ mpc' = "packing"
            /\ UNCHANGED exit_code
    /\ UNCHANGED <<dir_exists, msdfgen_path, on_path, msdfgen, svg_files, n_svg,
                   svg_i, raster, icons_data, atlas_img, pos_map, json_data>>
    /\ UNCHANGED <<images, padding, sorted_indices, atlas_width, positions,
                   current_x, current_y, row_height, k, atlas_height, final_size,
                   atlas>>

\* lines 124-129: nothing produced is a failure; else pack_images is entered
AfterLoop ==
    /\ mpc = "loop"
    /\ svg_i > Len(svg_files)
    /\ IF images = <<>>
       THEN /\ exit_code' = 1
            /\ mpc' = "exit"
            /\ UNCHANGED pc
       ELSE /\ pc' = "enter"
            /\ mpc' = "packing"
            /\ UNCHANGED exit_code
    /\ UNCHANGED <<dir_exists, msdfgen_path, on_path, msdfgen, svg_files, n_svg,
                   svg_i, raster, icons_data, atlas_img, pos_map, json_data>>
    /\ UNCHANGED <<images, padding, sorted_indices, atlas_width, positions,
                   current_x, current_y, row_height, k, atlas_height, final_size,
                   atlas>>

RECURSIVE IconsReversed(_, _, _, _)
IconsReversed(meta, pos, imgs, n) ==
    IF n = 0 THEN <<>>
    ELSE (meta[n].name :> [x |-> pos[Len(pos) + 1 - n][1], y |-> pos[Len(pos) + 1 - n][2],
                           width |-> imgs[n].width, height |-> imgs[n].height])
         @@ IconsReversed(meta, pos, imgs, n - 1)

\* lines 141-149: json_data["icons"][meta["name"]] = {...} for i = 1 .. n; a
\* later entry of the same name replaces an earlier one
RECURSIVE Icons(_, _, _, _)
Icons(meta, pos, imgs, n) ==
    IF n = 0 THEN <<>>
    ELSE (meta[n].name :> [x |-> pos[n][1], y |-> pos[n][2],
                           width |-> imgs[n].width, height |-> imgs[n].height])
         @@ Icons(meta, pos, imgs, n - 1)

\* lines 129-161: the return of pack_images, the saved sheet, the metadata and
\* the cleanup; an exception of pack_images is not caught
AfterPack ==
    /\ mpc = "packing"
    /\ pc \in {"returned", "raised"}
    /\ IF pc = "raised"
       THEN /\ exit_code' = 1
            /\ UNCHANGED <<atlas_img, pos_map, json_data>>
       ELSE /\ atlas_img' = atlas
            /\ pos_map' = positions
            /\ json_data' = [atlas_width |-> atlas.width,
                             atlas_height |-> atlas.height,
                             icons |-> Icons(icons_data, positions, images,
                                             Len(icons_data))]
            /\ exit_code' = 0
    /\ mpc' = "exit"
    /\ UNCHANGED <<dir_exists, msdfgen_path, on_path, msdfgen, svg_files, n_svg,
                   svg_i, raster, icons_data>>
    /\ UNCHANGED packVars

InitMain ==
    /\ mpc = "start"
    /\ dir_exists \in BOOLEAN
    /\ msdfgen_path \in {None, "good", "bad"}
    /\ on_path \in BOOLEAN
    /\ n_svg \in 0 .. MaxFiles
    /\ (~dir_exists => n_svg = 0)
    /\ padding \in Paddings
    /\ msdfgen = None
    /\ svg_files = None
    /\ svg_i = None
    /\ raster = <<>>
    /\ icons_data = None
    /\ images = None
    /\ atlas_img = None
    /\ pos_map = None
    /\ json_data = None
    /\ exit_code = None
    /\ pc = "idle"
    /\ PackLocalsInit

NextMain ==
    \/ CheckDir
    \/ FindMsdfgen
    \/ Glob
    \/ Rasterize
    \/ AfterLoop
    \/ PackEnter
    \/ ShelfStep
    \/ Resolve
    \/ Compose
    \/ AfterPack

SpecMain == InitMain /\ [][NextMain]_vars

----------------------------------------------------------------------------
\* Properties of pack_images (checked under Spec)

Returned == pc = "returned"
Idx == 1 .. Len(images)

\* every image has positive width and height
AllValid == \A i \in Idx : images[i].width > 0 /\ images[i].height > 0

\* a non-empty list of valid images and a padding >= 0
ValidInput == images # <<>> /\ AllValid /\ padding >= 0

PosX(i) == positions[i][1]
PosY(i) == positions[i][2]

\* the padded boxes of a and b are apart on the x or on the y axis
Separated(a, b) ==
    \/ PosX(a) + images[a].width + padding <= PosX(b)
    \/ PosX(b) + images[b].width + padding <= PosX(a)
    \/ PosY(a) + images[a].height + padding <= PosY(b)
    \/ PosY(b) + images[b].height + padding <= PosY(a)

\* C1: for a valid input, any two distinct images of the returned placement
\* are separated by at least the padding on one axis
C1_NonOverlap ==
    (Returned /\ ValidInput) =>
        \A a, b \in Idx : a # b => Separated(a, b)

\* two images side by side in one row, with a padding to keep
C1_Witness ==
    /\ Returned /\ ValidInput
    /\ Len(images) >= 2
    /\ padding >= 1
    /\ PosY(1) = PosY(2)

\* C2: for a valid input, every returned placement lies within the sheet
C2_Containment ==
    (Returned /\ ValidInput) =>
        \A i \in Idx :
            /\ PosX(i) + images[i].width <= atlas.width
            /\ PosY(i) + images[i].height <= atlas.height

\* the pixel (cx, cy) lies in the rectangle placed for image i
InRect(i, cx, cy) ==
    /\ PosX(i) <= cx /\ cx < PosX(i) + images[i].width
    /\ PosY(i) <= cy /\ cy < PosY(i) + images[i].height

\* C3: for a valid input, the rectangle read back at positions[i] holds exactly
\* the pixels of image i, and every pixel outside all rectangles is transparent
C3_PixelFidelity ==
    (Returned /\ ValidInput) =>
        /\ \A i \in Idx :
              \A u \in 0 .. (images[i].width - 1), v \in 0 .. (images[i].height - 1) :
                  /\ <<PosX(i) + u, PosY(i) + v>> \in DOMAIN atlas.px
                  /\ atlas.px[<<PosX(i) + u, PosY(i) + v>>] = Texel(images[i], u, v)
        /\ \A c \in DOMAIN atlas.px :
              (\A i \in Idx : ~InRect(i, c[1], c[2])) => atlas.px[c] = 0

\* n is 1, 2, 4, 8, ...
RECURSIVE IsPow2(_)
IsPow2(n) == n = 1 \/ (n > 1 /\ n % 2 = 0 /\ IsPow2(n \div 2))

\* f is the smallest power of two >= m
LeastPow2Geq(f, m) ==
    /\ IsPow2(f)
    /\ f >= m
    /\ \A q \in 1 .. (f - 1) : IsPow2(q) => q < m

\* r = ceil(sqrt(a))
IsCeilSqrt(r, a) == r >= 0 /\ r * r >= a /\ (r > 0 => (r - 1) * (r - 1) < a)

\* C4: for a non-empty valid input the sheet is final_size x final_size,
\* final_size is the smallest power of two >= max(W, H), W is the smallest
\* power of two >= ceil(sqrt(total padded area)), H is cy + row_height +
\* padding, and final_size >= W
C4_SquarePow2 ==
    (Returned /\ ValidInput) =>
        /\ atlas.width = final_size
        /\ atlas.height = final_size
        /\ DOMAIN atlas.px = (0 .. (final_size - 1)) \X (0 .. (final_size - 1))
        /\ \E r \in 0 .. TotalArea(images, padding) :
              /\ IsCeilSqrt(r, TotalArea(images, padding))
              /\ LeastPow2Geq(atlas_width, r)
        /\ atlas_height = current_y + row_height + padding
        /\ LeastPow2Geq(final_size, Max(atlas_width, atlas_height))
        /\ final_size >= atlas_width

\* the rows make the extent higher than the estimated width, and the height is
\* no power of two, so the final size is rounded up from it
C4_Witness ==
    /\ Returned /\ ValidInput
    /\ atlas_height > atlas_width
    /\ final_size > atlas_height

\* C7: pack_images of an empty list returns at once: a 1x1 transparent sheet
\* and no placement, for every padding, the estimate and the loop not run
C7_EmptyInput ==
    (images = <<>> /\ pc # "enter") =>
        /\ pc = "returned"
        /\ atlas.width = 1 /\ atlas.height = 1
        /\ DOMAIN atlas.px = {<<0, 0>>}
        /\ atlas.px[<<0, 0>>] = 0
        /\ positions = <<>>
        /\ sorted_indices = None
        /\ atlas_width = None
        /\ k = None
        /\ final_size = None

C7_Witness == images = <<>> /\ pc = "returned" /\ padding < 0

\* C8: a list with an image of zero width or zero height is rejected (for a
\* padding >= 0, as the call contract has it): no such image is given a
\* placement and pack_images does not return
C8_InvalidRejected ==
    (pc # "enter" /\ ~AllValid /\ padding >= 0) =>
        /\ pc # "returned"
        /\ pc \in {"shelf", "compose"} =>
              \A i \in Idx :
                  (images[i].width = 0 \/ images[i].height = 0) => positions[i] = NoPos

\* a is packed before b: higher, or as high and earlier in the input
PackedBefore(a, b) ==
    \/ images[a].height > images[b].height
    \/ images[a].height = images[b].height /\ a < b

\* C9: for a valid input, an image that is higher, or as high and earlier in
\* the input, is placed before the other in row-major order
C9_PackingOrder ==
    (Returned /\ ValidInput) =>
        \A a, b \in Idx :
            PackedBefore(a, b) =>
                \/ PosY(a) < PosY(b)
                \/ PosY(a) = PosY(b) /\ PosX(a) < PosX(b)

\* the second image is the higher one and starts the first row; the first
\* image does not fit behind it
C9_Witness ==
    /\ Returned /\ ValidInput
    /\ Len(images) = 2
    /\ images[2].height > images[1].height
    /\ PosY(2) < PosY(1)

\* every image fits in a row of the estimated width with its padding
AllFit == \A i \in Idx : images[i].width + 2 * padding <= atlas_width

\* C10: for a valid input whose images all fit (width + 2*padding <= W), every
\* placement keeps the padding from the four edges of the W x H extent, which
\* lies in the sheet; so a placement outside the sheet needs an image that
\* does not fit
C10_PaddedContainment ==
    (Returned /\ ValidInput) =>
        /\ AllFit =>
              /\ atlas_width <= final_size
              /\ atlas_height <= final_size
              /\ \A i \in Idx :
                    /\ PosX(i) >= padding
                    /\ PosY(i) >= padding
                    /\ PosX(i) + images[i].width + padding <= atlas_width
                    /\ PosY(i) + images[i].height + padding <= atlas_height
        /\ (\E i \in Idx : \/ PosX(i) + images[i].width > final_size
                           \/ PosY(i) + images[i].height > final_size)
              => \E j \in Idx : images[j].width + 2 * padding > atlas_width

\* two rows, a padding, and an image that ends exactly one padding before W
C10_Witness ==
    /\ Returned /\ ValidInput /\ AllFit
    /\ padding >= 1
    /\ Len(images) = 2
    /\ PosY(1) # PosY(2)
    /\ \E i \in Idx : PosX(i) + images[i].width + padding = atlas_width

----------------------------------------------------------------------------
\* Properties of main (checked under SpecMain)

Exited == mpc = "exit"
\* the run went through to the metadata and the cleanup
Completed == Exited /\ pc = "returned"

\* the files the rasterizer has produced an image for
Produced == {f \in 1 .. Len(raster) : raster[f].ok}

\* C5: the emitted icons map has one entry per produced file and none for a
\* failed one; the entry of a file carries the position pack_images gave to
\* that file's image and the image's own size; the three lists are aligned
C5_OneEntryPerImage ==
    Completed =>
        /\ Produced # {}
        /\ DOMAIN json_data.icons = {svg_files[f] : f \in Produced}
        /\ Len(images) = Len(icons_data)
        /\ Len(pos_map) = Len(images)
        /\ \A i \in 1 .. Len(pos_map) : pos_map[i] # NoPos
        /\ \A f \in Produced :
              \E i \in 1 .. Len(images) :
                  /\ images[i].tag = svg_files[f]
                  /\ \A j \in 1 .. Len(images) : images[j].tag = svg_files[f] => j = i
                  /\ icons_data[i].name = svg_files[f]
                  /\ json_data.icons[svg_files[f]] =
                        [x |-> positions[i][1], y |-> positions[i][2],
                         width |-> raster[f].width, height |-> raster[f].height]

\* a failed file before a produced one
C5_WitnessFailure ==
    /\ Completed
    /\ Len(raster) = 2
    /\ ~raster[1].ok
    /\ raster[2].ok

\* an executable is named or found
Located == msdfgen_path # None \/ on_path

\* C6: main returns 0 when the run completes and when the directory holds no
\* SVG file (the directory and the rasterizer being there), and non-zero when
\* no rasterizer is located or when files were found and none gave an image
C6_ExitStatus ==
    Exited =>
        /\ Completed => exit_code = 0
        /\ (dir_exists /\ Located /\ n_svg = 0) => exit_code = 0
        /\ ~Located => exit_code # 0
        /\ (n_svg > 0 /\ Produced = {}) => exit_code # 0

\* files found, the rasterizer run on each, none produced
C6_Witness ==
    /\ Exited
    /\ n_svg > 0
    /\ Len(raster) = n_svg
    /\ Produced = {}
    /\ exit_code = 1

====
